---- MODULE Spec2Model ----
(***************************************************************************)
(* A model of the medical RAG chatbot repository:                          *)
(*   chunks.py       the chunking pipeline (sections, semantic split, ids)  *)
(*   embeddings.py   loading the chunk collection and (re)building the      *)
(*                   persisted vector index                                 *)
(*   app.py          the web query path (api_ask, rag_query)                *)
(*   rag_chatbot.py  the interactive session (chat_interface, rag_pipeline) *)
(* Each program has its own specification over the shared variables.        *)
(***************************************************************************)
EXTENDS Integers, Sequences, FiniteSets, TLC

VARIABLES
    \* chunks.py, chunk_documents
    documents,      \* the input list of documents (texts)
    doc_i,          \* index of the next document of the for loop
    sections,       \* sections of the current document still to process
    sub_chunks,     \* sub-chunks of the current section still to append
    chunks,         \* the output list
    chunk_id,       \* the running id counter
    from_split,     \* bookkeeping: from_split[i] iff chunks[i] came out of semantic_split
    cpc,            \* "loop" while chunk_documents runs, "done" once it returned
    \* embeddings.py, main
    raw_chunks,     \* the chunk collection read from chunks.json
    item_i,         \* index of the next item of load_chunks_from_json's loop
    loaded,         \* the documents load_chunks_from_json has kept so far
    persist,        \* the index directory PERSIST_DIRECTORY on disk
    persist0,       \* bookkeeping: the index directory as it was when main started
    result,         \* what create_vector_store returned: "pending", "None" or "store"
    epc,            \* where main stands: "load", "create", "embed", "write", "done", "raised"
    \* app.py and rag_chatbot.py
    mode,           \* which program runs: "web" (app.py) or "chat" (rag_chatbot.py)
    vectorstore,    \* the loaded vector store, or none
    llm,            \* "None" (simulation mode) or "groq"
    len_defined,    \* whether the store's class defines __len__ (decides "not vectorstore")
    chat_k,         \* chat_interface's retrieval breadth k
    session,        \* "serving" (web); "start", "running", "ended", "exited", "crashed" (chat)
    last            \* the record of the last request handled

chunkVars == <<documents, doc_i, sections, sub_chunks, chunks, chunk_id, from_split, cpc>>

embVars == <<raw_chunks, item_i, loaded, persist, persist0, result, epc>>

queryVars == <<mode, vectorstore, llm, len_defined, chat_k, session, last>>

vars == <<chunkVars, embVars, queryVars>>

(***************************************************************************)
(* Text.  A text is a sequence of tokens, each standing for the characters  *)
(* written beside it.  A run W(k) is k one-letter words joined by single    *)
(* spaces ("w w ... w", 2k-1 characters): the only compression, and no      *)
(* separator of the splitter occurs inside a run.                           *)
(***************************************************************************)
NL == [t |-> "nl", n |-> 0]        \* "\n"
SP == [t |-> "sp", n |-> 0]        \* " "
HY == [t |-> "hy", n |-> 0]        \* "-"
BU == [t |-> "bu", n |-> 0]        \* the bullet character
PT == [t |-> "pt", n |-> 0]        \* "."
HASH == [t |-> "hash", n |-> 0]    \* "##"
W(k) == [t |-> "w", n |-> k]

\* len() of one token's characters
TokLen(tok) ==
    CASE tok.t = "w" -> 2 * tok.n - 1
      [] tok.t = "hash" -> 2
      [] OTHER -> 1

RECURSIVE StrLen(_)
\* len(text): the splitter's length_function
StrLen(s) == IF s = <<>> THEN 0 ELSE TokLen(Head(s)) + StrLen(Tail(s))

IsWs(tok) == tok.t \in {"nl", "sp"}

RECURSIVE WordsFrom(_, _, _)
\* the words of s from position i on; glued: the previous character is not
\* whitespace, so the first word of this token continues the previous one
WordsFrom(s, i, glued) ==
    IF i > Len(s) THEN 0
    ELSE IF IsWs(s[i]) THEN WordsFrom(s, i + 1, FALSE)
    ELSE (IF s[i].t = "w" THEN s[i].n ELSE 1) - (IF glued THEN 1 ELSE 0)
         + WordsFrom(s, i + 1, TRUE)

\* len(text.split()): the number of maximal runs of non-whitespace characters
WordCount(s) == WordsFrom(s, 1, FALSE)

RECURSIVE LStrip(_)
LStrip(s) == IF s # <<>> /\ IsWs(Head(s)) THEN LStrip(Tail(s)) ELSE s

RECURSIVE RStrip(_)
RStrip(s) ==
    IF s # <<>> /\ IsWs(s[Len(s)]) THEN RStrip(SubSeq(s, 1, Len(s) - 1)) ELSE s

\* str.strip()
Strip(s) == RStrip(LStrip(s))

\* pat occurs in s at position i
MatchAt(s, i, pat) ==
    /\ i + Len(pat) - 1 <= Len(s)
    /\ \A j \in 1..Len(pat) : s[i + j - 1] = pat[j]

Contains(s, pat) == \E i \in 1..Len(s) : MatchAt(s, i, pat)

RECURSIVE MatchStarts(_, _, _)
\* the starts of the leftmost, non-overlapping occurrences of pat in s from i on
MatchStarts(s, pat, i) ==
    IF i > Len(s) THEN <<>>
    ELSE IF MatchAt(s, i, pat) THEN <<i>> \o MatchStarts(s, pat, i + Len(pat))
    ELSE MatchStarts(s, pat, i + 1)

RECURSIVE Cat(_)
\* "".join(parts)
Cat(parts) == IF parts = <<>> THEN <<>> ELSE Head(parts) \o Cat(Tail(parts))

(***************************************************************************)
(* chunks.py: configuration                                                 *)
(***************************************************************************)
MAX_SECTION_TOKENS == 400
CHUNK_OVERLAP == 40
PRIMARY_SEPARATOR == <<HASH>>

\* separators=["\n\n", "\n- ", "\n• ", "\n", ". "]
Separators == << <<NL, NL>>, <<NL, HY, SP>>, <<NL, BU, SP>>, <<NL>>, <<PT, SP>> >>

(***************************************************************************)
(* split_by_sections                                                        *)
(***************************************************************************)
\* text.split(sep): the pieces between the occurrences of sep, empty ones kept
SplitOn(s, pat) ==
    LET ms == MatchStarts(s, pat, 1)
        from(k) == IF k = 1 THEN 1 ELSE ms[k - 1] + Len(pat)
        to(k) == IF k = Len(ms) + 1 THEN Len(s) ELSE ms[k] - 1
    IN  [k \in 1..(Len(ms) + 1) |-> SubSeq(s, from(k), to(k))]

\* raw.split("\n", 1): at most one split, at the first newline
SplitFirstLine(s) ==
    LET ms == MatchStarts(s, <<NL>>, 1)
    IN  IF ms = <<>> THEN <<s>>
        ELSE <<SubSeq(s, 1, ms[1] - 1), SubSeq(s, ms[1] + 1, Len(s))>>

\* the Document built from one non-empty raw section
MakeSection(raw, meta) ==
    LET lines == SplitFirstLine(raw)
        section_title == Strip(lines[1])
        section_body == IF Len(lines) > 1 THEN Strip(lines[2]) ELSE <<>>
    IN  [page_content |-> <<HASH, SP>> \o section_title \o <<NL>> \o section_body,
         metadata |-> [document_id |-> meta.document_id, section |-> section_title]]

split_by_sections(doc) ==
    LET raw_sections == SplitOn(doc.page_content, PRIMARY_SEPARATOR)
        stripped == [k \in 1..Len(raw_sections) |-> Strip(raw_sections[k])]
        kept == SelectSeq(stripped, LAMBDA raw : raw # <<>>)
    IN  [k \in 1..Len(kept) |-> MakeSection(kept[k], doc.metadata)]

(***************************************************************************)
(* semantic_split: RecursiveCharacterTextSplitter(chunk_size =              *)
(* MAX_SECTION_TOKENS, chunk_overlap = CHUNK_OVERLAP, separators), with the *)
(* library's defaults: length_function = len, keep_separator = True (the    *)
(* separator starts the piece after it), strip_whitespace = True.           *)
(***************************************************************************)
\* _split_text_with_regex(text, separator, keep_separator=True)
SplitKeep(s, pat) ==
    LET ms == MatchStarts(s, pat, 1)
        cuts == <<1>> \o ms \o <<Len(s) + 1>>
        pieces == [k \in 1..(Len(cuts) - 1) |-> SubSeq(s, cuts[k], cuts[k + 1] - 1)]
    IN  SelectSeq(pieces, LAMBDA p : p # <<>>)

\* _join_docs: the joined, stripped text as a one-element list, or nothing when it is empty
JoinDocs(current_doc) ==
    LET text == Strip(Cat(current_doc))
    IN  IF text = <<>> THEN <<>> ELSE <<text>>

RECURSIVE PopOverlap(_, _, _)
\* the while loop of _merge_splits (the separator joined with is "", of length 0):
\* drop leading pieces until what is kept fits the overlap and leaves room for len
PopOverlap(current_doc, total, len) ==
    IF total > CHUNK_OVERLAP \/ (total + len > MAX_SECTION_TOKENS /\ total > 0)
    THEN PopOverlap(Tail(current_doc), total - StrLen(Head(current_doc)), len)
    ELSE <<current_doc, total>>

RECURSIVE MergeLoop(_, _, _, _, _)
MergeLoop(splits, i, docs, current_doc, total) ==
    IF i > Len(splits) THEN docs \o JoinDocs(current_doc)
    ELSE LET len == StrLen(splits[i])
         IN  IF total + len > MAX_SECTION_TOKENS
             THEN IF Len(current_doc) > 0
                  THEN LET kept == PopOverlap(current_doc, total, len)
                       IN  MergeLoop(splits, i + 1, docs \o JoinDocs(current_doc),
                                     Append(kept[1], splits[i]), kept[2] + len)
                  ELSE MergeLoop(splits, i + 1, docs, <<splits[i]>>, total + len)
             ELSE MergeLoop(splits, i + 1, docs, Append(current_doc, splits[i]), total + len)

\* _merge_splits(splits, "")
MergeSplits(splits) == MergeLoop(splits, 1, <<>>, <<>>, 0)

\* the index in separators of the first separator that occurs in text, or the last
\* index when none does
ChosenSeparator(text, separators) ==
    IF \E k \in 1..Len(separators) : Contains(text, separators[k])
    THEN CHOOSE k \in 1..Len(separators) :
            /\ Contains(text, separators[k])
            /\ \A j \in 1..(k - 1) : ~Contains(text, separators[j])
    ELSE Len(separators)

\* a piece at least chunk_size long that no separator is left to split: kept whole
KeepWhole(s) == <<s>>

RECURSIVE SplitText(_, _)
RECURSIVE SplitLoop(_, _, _, _, _)
\* the for loop of _split_text over the splits
SplitLoop(splits, i, final_chunks, good_splits, new_separators) ==
    IF i > Len(splits)
    THEN final_chunks \o (IF good_splits # <<>> THEN MergeSplits(good_splits) ELSE <<>>)
    ELSE IF StrLen(splits[i]) < MAX_SECTION_TOKENS
         THEN SplitLoop(splits, i + 1, final_chunks, Append(good_splits, splits[i]),
                        new_separators)
         ELSE LET flushed == final_chunks \o
                     (IF good_splits # <<>> THEN MergeSplits(good_splits) ELSE <<>>)
                  other == IF new_separators = <<>> THEN KeepWhole(splits[i])
                           ELSE SplitText(splits[i], new_separators)
              IN  SplitLoop(splits, i + 1, flushed \o other, <<>>, new_separators)

\* _split_text(text, separators)
SplitText(text, separators) ==
    LET k == ChosenSeparator(text, separators)
        found == Contains(text, separators[k])
        new_separators == IF found THEN SubSeq(separators, k + 1, Len(separators))
                          ELSE <<>>
    IN  SplitLoop(SplitKeep(text, separators[k]), 1, <<>>, <<>>, new_separators)

\* splitter.split_documents([section]): one Document per chunk, the metadata copied
semantic_split(section) ==
    LET texts == SplitText(section.page_content, Separators)
    IN  [k \in 1..Len(texts) |-> [page_content |-> texts[k], metadata |-> section.metadata]]

(***************************************************************************)
(* chunk_documents                                                          *)
(***************************************************************************)
TooLong(section) == WordCount(section.page_content) > MAX_SECTION_TOKENS

WithChunkId(c, id) ==
    [page_content |-> c.page_content,
     metadata |-> [document_id |-> c.metadata.document_id,
                   section |-> c.metadata.section,
                   chunk_id |-> id]]

NextChunkId_Stuck(id) == id

\* chunk_id += 1
NextChunkId(id) == id + 1

\* for doc in documents: sections = split_by_sections(doc)
NextDocument ==
    /\ cpc = "loop" /\ sections = <<>> /\ sub_chunks = <<>>
    /\ doc_i <= Len(documents)
    /\ sections' = split_by_sections(documents[doc_i])
    /\ doc_i' = doc_i + 1
    /\ UNCHANGED <<documents, sub_chunks, chunks, chunk_id, from_split, cpc>>
    /\ UNCHANGED <<embVars, queryVars>>

\* for section in sections: the long section goes through semantic_split
NextSection ==
    /\ cpc = "loop" /\ sub_chunks = <<>> /\ sections # <<>>
    /\ LET section == Head(sections)
       IN  sub_chunks' =
               IF TooLong(section)
               THEN [k \in 1..Len(semantic_split(section)) |->
                        [doc |-> semantic_split(section)[k], split |-> TRUE]]
               ELSE << [doc |-> section, split |-> FALSE] >>
    /\ sections' = Tail(sections)
    /\ UNCHANGED <<documents, doc_i, chunks, chunk_id, from_split, cpc>>
    /\ UNCHANGED <<embVars, queryVars>>

\* for c in sub_chunks: set the id, count, append
AppendChunk ==
    /\ cpc = "loop" /\ sub_chunks # <<>>
    /\ chunks' = Append(chunks, WithChunkId(Head(sub_chunks).doc, chunk_id))
    /\ from_split' = Append(from_split, Head(sub_chunks).split)
    /\ chunk_id' = NextChunkId(chunk_id)
    /\ sub_chunks' = Tail(sub_chunks)
    /\ UNCHANGED <<documents, doc_i, sections, cpc>>
    /\ UNCHANGED <<embVars, queryVars>>

\* return chunks
ReturnChunks ==
    /\ cpc = "loop" /\ sections = <<>> /\ sub_chunks = <<>>
    /\ doc_i > Len(documents)
    /\ cpc' = "done"
    /\ UNCHANGED <<documents, doc_i, sections, sub_chunks, chunks, chunk_id, from_split>>
    /\ UNCHANGED <<embVars, queryVars>>

(***************************************************************************)
(* The input documents of a run: one document of up to MaxParts parts       *)
(* (a part is a separator, or nothing, followed by a run of words), or up   *)
(* to MaxDocs documents out of a few fixed ones.                            *)
(***************************************************************************)
MaxParts == 2
MaxDocs == 2

RunWords == {1, 150, 401}
FirstPrefixes == {<<>>, <<HASH>>}
NextPrefixes == {<<HASH>>, <<NL, NL>>, <<NL, HY, SP>>, <<NL, BU, SP>>, <<NL>>, <<PT, SP>>}
Parts(prefixes) == {p \o <<W(k)>> : p \in prefixes, k \in RunWords}

RECURSIVE TextsOf(_)
\* the texts of exactly n parts
TextsOf(n) ==
    IF n = 0 THEN {<<>>}
    ELSE IF n = 1 THEN Parts(FirstPrefixes)
    ELSE {t \o p : t \in TextsOf(n - 1), p \in Parts(NextPrefixes)}

RichTexts == UNION {TextsOf(n) : n \in 0..MaxParts}

SmallTexts ==
    { <<>>,
      <<W(1)>>,
      <<HASH, W(1), NL, W(1), HASH, W(1)>>,
      <<HASH, W(1), NL, W(150), NL, W(1), NL, W(150), NL, W(150)>>,
      <<HASH, W(401), NL, W(1)>> }

DocLists ==
    {<<t>> : t \in RichTexts} \cup UNION {[1..n -> SmallTexts] : n \in 0..MaxDocs}

\* load_pdfs gives each document its own document_id
AsDocuments(texts) ==
    [k \in 1..Len(texts) |-> [page_content |-> texts[k], metadata |-> [document_id |-> k]]]

\* chunk_documents is called on the documents
ChunksStart(docs) ==
    /\ documents = docs
    /\ doc_i = 1
    /\ sections = <<>>
    /\ sub_chunks = <<>>
    /\ chunks = <<>>
    /\ chunk_id = 0
    /\ from_split = <<>>
    /\ cpc = "loop"

(***************************************************************************)
(* embeddings.py.  Strings are sequences of characters here.                *)
(***************************************************************************)
LowerLetters == <<"a", "b", "c", "d", "e", "f", "g", "h", "i", "j", "k", "l", "m",
                  "n", "o", "p", "q", "r", "s", "t", "u", "v", "w", "x", "y", "z">>
UpperLetters == <<"A", "B", "C", "D", "E", "F", "G", "H", "I", "J", "K", "L", "M",
                  "N", "O", "P", "Q", "R", "S", "T", "U", "V", "W", "X", "Y", "Z">>

UpperChar(c) ==
    IF \E k \in 1..Len(LowerLetters) : LowerLetters[k] = c
    THEN UpperLetters[CHOOSE k \in 1..Len(LowerLetters) : LowerLetters[k] = c]
    ELSE c

LowerChar(c) ==
    IF \E k \in 1..Len(UpperLetters) : UpperLetters[k] = c
    THEN LowerLetters[CHOOSE k \in 1..Len(UpperLetters) : UpperLetters[k] = c]
    ELSE c

Upper_Unchanged(s) == s

\* str.upper()
Upper(s) == [k \in 1..Len(s) |-> UpperChar(s[k])]

\* str.lower()
Lower(s) == [k \in 1..Len(s) |-> LowerChar(s[k])]

\* Config.EXCLUDED_SECTIONS = ["DOCUMENT TITLE", "DOCUMENT SCOPE"]
EXCLUDED_SECTIONS ==
    << <<"D", "O", "C", "U", "M", "E", "N", "T", " ", "T", "I", "T", "L", "E">>,
       <<"D", "O", "C", "U", "M", "E", "N", "T", " ", "S", "C", "O", "P", "E">> >>

\* Python's None, where a string is expected
None == <<"None">>

\* dict.get(key, default)
Get(dict, key, default) == IF key \in DOMAIN dict THEN dict[key] ELSE default

\* any(x in section for x in Config.EXCLUDED_SECTIONS), section the upper-cased title
IsExcluded(item) ==
    LET section == Upper(Get(item.metadata, "section", <<>>))
    IN  \E k \in 1..Len(EXCLUDED_SECTIONS) : Contains(section, EXCLUDED_SECTIONS[k])

\* the Document load_chunks_from_json builds from an item it keeps
LoadedDocument(item) ==
    [page_content |-> item.content,
     metadata |-> [chunk_id |-> item.chunk_id,
                   document_id |-> Get(item.metadata, "document_id", None),
                   source |-> Get(item.metadata, "source", None),
                   section |-> Get(item.metadata, "section", None),
                   domain |-> Get(item.metadata, "domain", None),
                   language |-> Get(item.metadata, "language", None)]]

\* for item in raw_chunks: skip the excluded sections, keep the rest
LoadItem ==
    /\ epc = "load" /\ item_i <= Len(raw_chunks)
    /\ loaded' = IF IsExcluded(raw_chunks[item_i]) THEN loaded
                 ELSE Append(loaded, LoadedDocument(raw_chunks[item_i]))
    /\ item_i' = item_i + 1
    /\ UNCHANGED <<raw_chunks, persist, persist0, result, epc>>
    /\ UNCHANGED <<chunkVars, queryVars>>

\* return documents; main calls create_vector_store(chunks)
LoadReturn ==
    /\ epc = "load" /\ item_i > Len(raw_chunks)
    /\ epc' = "create"
    /\ UNCHANGED <<raw_chunks, item_i, loaded, persist, persist0, result>>
    /\ UNCHANGED <<chunkVars, queryVars>>

\* the index directory: absent, or holding the entries (chunk ids) of a build that
\* either completed or broke off
Absent == [exists |-> FALSE, entries |-> <<>>, complete |-> FALSE]
IndexOf(docs) ==
    [exists |-> TRUE,
     entries |-> [k \in 1..Len(docs) |-> docs[k].metadata.chunk_id],
     complete |-> TRUE]
PartialIndexOf(docs, n) ==
    [exists |-> TRUE,
     entries |-> [k \in 1..n |-> docs[k].metadata.chunk_id],
     complete |-> FALSE]

NotChunks_Never(docs) == FALSE

\* if not chunks
NotChunks(docs) == docs = <<>>

\* if persist_path.exists(): shutil.rmtree(persist_path)
RmTree(dir) == Absent

\* create_vector_store with no chunks: return None
CreateRefuse ==
    /\ epc = "create" /\ NotChunks(loaded)
    /\ result' = "None"
    /\ epc' = "done"
    /\ UNCHANGED <<raw_chunks, item_i, loaded, persist, persist0>>
    /\ UNCHANGED <<chunkVars, queryVars>>

\* create_vector_store with chunks: first the existing index directory is removed
CreateRemove ==
    /\ epc = "create" /\ ~NotChunks(loaded)
    /\ persist' = IF persist.exists THEN RmTree(persist) ELSE persist
    /\ epc' = "embed"
    /\ UNCHANGED <<raw_chunks, item_i, loaded, persist0, result>>
    /\ UNCHANGED <<chunkVars, queryVars>>

\* embeddings = create_embeddings_model()
EmbeddingsReady ==
    /\ epc = "embed"
    /\ epc' = "write"
    /\ UNCHANGED <<raw_chunks, item_i, loaded, persist, persist0, result>>
    /\ UNCHANGED <<chunkVars, queryVars>>

\* create_embeddings_model() raises (the model cannot be loaded): nothing catches it
EmbeddingsFail ==
    /\ epc = "embed"
    /\ epc' = "raised"
    /\ UNCHANGED <<raw_chunks, item_i, loaded, persist, persist0, result>>
    /\ UNCHANGED <<chunkVars, queryVars>>

\* Chroma.from_documents(...) embeds and writes every chunk; return vectorstore
WriteIndex ==
    /\ epc = "write"
    /\ persist' = IndexOf(loaded)
    /\ result' = "store"
    /\ epc' = "done"
    /\ UNCHANGED <<raw_chunks, item_i, loaded, persist0>>
    /\ UNCHANGED <<chunkVars, queryVars>>

\* Chroma.from_documents(...) raises part-way (embedding or writing fails): the
\* directory is left as it is, absent or with a part of the entries
WriteFail ==
    /\ epc = "write"
    /\ \/ persist' = persist
       \/ \E n \in 0..(Len(loaded) - 1) : persist' = PartialIndexOf(loaded, n)
    /\ epc' = "raised"
    /\ UNCHANGED <<raw_chunks, item_i, loaded, persist0, result>>
    /\ UNCHANGED <<chunkVars, queryVars>>

(***************************************************************************)
(* The chunk collections and index directories main may start from: up to   *)
(* MaxChunks items, the section titles out of a few fixed ones (or no       *)
(* "section" key), ids as chunk_documents numbers them; the directory       *)
(* absent or left by an earlier build.                                      *)
(***************************************************************************)
MaxChunks == 3

SectionTitles ==
    { <<"D", "O", "C", "U", "M", "E", "N", "T", " ", "T", "I", "T", "L", "E">>,
      <<"D", "o", "c", "u", "m", "e", "n", "t", " ", "T", "i", "t", "l", "e">>,
      <<"d", "o", "c", "u", "m", "e", "n", "t", " ", "s", "c", "o", "p", "e">>,
      <<"1", ".", " ", "D", "o", "c", "u", "m", "e", "n", "t", " ", "S", "c", "o", "p", "e",
        " ", "a", "n", "d", " ", "P", "u", "r", "p", "o", "s", "e">>,
      <<"D", "o", "c", "u", "m", "e", "n", "t", " ", " ", "T", "i", "t", "l", "e">>,
      <<"T", "i", "t", "l", "e", " ", "D", "o", "c", "u", "m", "e", "n", "t">>,
      <<"R", "i", "s", "k", " ", "F", "a", "c", "t", "o", "r", "s">>,
      <<>> }

SourceName == <<"a", ".", "p", "d", "f">>

\* the metadata save_chunks wrote for a chunk of a section
MetadataOf(title, id) ==
    [document_id |-> <<"a">>, source |-> SourceName, domain |-> <<"O">>,
     language |-> <<"e", "n">>, total_pages |-> 1, section |-> title, chunk_id |-> id]

\* metadata without a "section" key
MetadataNoSection(id) ==
    [document_id |-> <<"a">>, source |-> SourceName, domain |-> <<"O">>,
     language |-> <<"e", "n">>, total_pages |-> 1, chunk_id |-> id]

ItemMetadata(id) == {MetadataOf(title, id) : title \in SectionTitles} \cup {MetadataNoSection(id)}

RECURSIVE CollectionsOf(_)
\* the collections of n items, the k-th with chunk_id k - 1
CollectionsOf(n) ==
    IF n = 0 THEN {<<>>}
    ELSE {Append(c, m) : c \in CollectionsOf(n - 1), m \in ItemMetadata(n - 1)}

\* chunks.py, save_chunks: one JSON object per chunk, the metadata written whole;
\* json.dump and json.load keep strings, integers, keys and the order of the list
save_chunks(cs) ==
    [k \in 1..Len(cs) |-> [chunk_id |-> cs[k].metadata.chunk_id,
                           content |-> cs[k].page_content,
                           metadata |-> cs[k].metadata]]

\* the chunks of a run of chunks.py, given their metadata
ChunksOf(c) == [k \in 1..Len(c) |-> [page_content |-> <<"t">>, metadata |-> c[k]]]

AsItems(c) == save_chunks(ChunksOf(c))

Collections == UNION {{AsItems(c) : c \in CollectionsOf(n)} : n \in 0..MaxChunks}

\* the index an earlier build left
OldIndex == [exists |-> TRUE, entries |-> <<0, 1>>, complete |-> TRUE]

EmbeddingsStart(items, dir) ==
    /\ raw_chunks = items
    /\ item_i = 1
    /\ loaded = <<>>
    /\ persist = dir
    /\ persist0 = dir
    /\ result = "pending"
    /\ epc = "load"

\* embeddings.py is not running
EmbeddingsIdle ==
    /\ raw_chunks = <<>>
    /\ item_i = 1
    /\ loaded = <<>>
    /\ persist = Absent
    /\ persist0 = Absent
    /\ result = "pending"
    /\ epc = "idle"

\* chunks.py is not running
ChunksIdle ==
    /\ documents = <<>>
    /\ doc_i = 1
    /\ sections = <<>>
    /\ sub_chunks = <<>>
    /\ chunks = <<>>
    /\ chunk_id = 0
    /\ from_split = <<>>
    /\ cpc = "idle"

(***************************************************************************)
(* app.py and rag_chatbot.py: the two query paths.  The vector store and    *)
(* the LLM are the external capabilities: a call of either returns or       *)
(* raises.  Each request is handled in one step, and last is its record.    *)
(***************************************************************************)
\* rag_chatbot.py Config
DEFAULT_K == 3
MAX_K == 8
\* app.py Config.DEFAULT_K
APP_DEFAULT_K == 3

IsSpace(c) == c \in {" ", "\t", "\n"}

RECURSIVE StrLStrip(_)
StrLStrip(s) == IF s # <<>> /\ IsSpace(Head(s)) THEN StrLStrip(Tail(s)) ELSE s

RECURSIVE StrRStrip(_)
StrRStrip(s) ==
    IF s # <<>> /\ IsSpace(s[Len(s)]) THEN StrRStrip(SubSeq(s, 1, Len(s) - 1)) ELSE s

StrStrip_Missing(s) == s

\* str.strip() on a string of characters
StrStrip(s) == StrRStrip(StrLStrip(s))

\* str.startswith(prefix)
StartsWith(s, prefix) == Len(prefix) <= Len(s) /\ SubSeq(s, 1, Len(prefix)) = prefix

RECURSIVE SplitFrom(_, _, _, _)
SplitFrom(s, i, word, words) ==
    IF i > Len(s) THEN (IF word = <<>> THEN words ELSE Append(words, word))
    ELSE IF IsSpace(s[i])
         THEN SplitFrom(s, i + 1, <<>>, IF word = <<>> THEN words ELSE Append(words, word))
         ELSE SplitFrom(s, i + 1, Append(word, s[i]), words)

\* str.split(): the words between runs of whitespace
StrSplit(s) == SplitFrom(s, 1, <<>>, <<>>)

Digits == <<"0", "1", "2", "3", "4", "5", "6", "7", "8", "9">>
IsDigit(c) == \E d \in 1..Len(Digits) : Digits[d] = c
DigitValue(c) == (CHOOSE d \in 1..Len(Digits) : Digits[d] = c) - 1

RECURSIVE DigitsValue(_)
DigitsValue(ds) ==
    IF ds = <<>> THEN 0 ELSE 10 * DigitsValue(SubSeq(ds, 1, Len(ds) - 1)) + DigitValue(ds[Len(ds)])

Unsigned(word) == IF word # <<>> /\ Head(word) \in {"+", "-"} THEN Tail(word) ELSE word

\* int(word) returns: an optional sign and at least one digit; otherwise it raises ValueError
IsIntLiteral(word) ==
    /\ Unsigned(word) # <<>>
    /\ \A d \in 1..Len(Unsigned(word)) : IsDigit(Unsigned(word)[d])

\* int(word)
IntValue(word) ==
    IF Head(word) = "-" THEN 0 - DigitsValue(Unsigned(word)) ELSE DigitsValue(Unsigned(word))

Min(a, b) == IF a < b THEN a ELSE b
Max(a, b) == IF a > b THEN a ELSE b

ClampK_NoFloor(n) == Min(n, MAX_K)

\* max(1, min(k, Config.MAX_K))
ClampK(n) == Max(1, Min(n, MAX_K))

\* the vector store handle: None, or a loaded collection of indexed documents
NoStore == [loaded |-> FALSE, docs |-> <<>>]
StoreOf(docs) == [loaded |-> TRUE, docs |-> docs]

\* "not vectorstore": None is falsy; a loaded store is falsy exactly when its class
\* defines __len__ and the collection is empty
Falsy(vs, has_len) == ~vs.loaded \/ (has_len /\ vs.docs = <<>>)

\* retriever.invoke(question) when it returns: the min(k, n) nearest documents, in
\* an order that depends on the question
Retrievals(vs, kk) ==
    LET n == Len(vs.docs)
        m == Min(kk, n)
    IN  {[i \in 1..m |-> vs.docs[f[i]]] :
            f \in {g \in [1..m -> 1..n] : \A a, b \in 1..m : a # b => g[a] # g[b]}}

NoDocs_Never(docs) == FALSE

\* if not docs
NoDocs(docs) == docs = <<>>

AddSource_Always(sources, source) == Append(sources, source)

\* if source not in sources: sources.append(source)
AddSource(sources, source) ==
    IF \E i \in 1..Len(sources) : sources[i] = source THEN sources
    ELSE Append(sources, source)

RECURSIVE BuildSources(_, _, _, _)
\* the for loop over docs, as far as the source list goes
BuildSources(docs, i, sources, default) ==
    IF i > Len(docs) THEN sources
    ELSE BuildSources(docs, i + 1,
                      AddSource(sources, Get(docs[i].metadata, "source", default)), default)

UnknownSource == <<"U", "n", "k", "n", "o", "w", "n">>
MedicalDocument == <<"M", "e", "d", "i", "c", "a", "l", " ", "d", "o", "c", "u", "m", "e", "n", "t">>

\* the record of a request
Record(req, kind, retrieved, kk, docs, generated, fault, outcome, answer, sources, success) ==
    [req |-> req, kind |-> kind, retrieved |-> retrieved, k_used |-> kk, docs |-> docs,
     generated |-> generated, fault |-> fault, outcome |-> outcome, answer |-> answer,
     sources |-> sources, success |-> success]

NoRequest ==
    Record([question |-> <<>>], "none", FALSE, 0, <<>>, FALSE, "none", "none", "none", <<>>, "none")

\* rag_pipeline(vectorstore, llm, question, k): every way the call can end.  Nothing
\* in it, or in chat_interface around it, catches what a capability raises.
rag_pipeline(req, vs, model, kk) ==
    {Record(req, "query", TRUE, kk, <<>>, FALSE, "retriever", "raised", "none", <<>>, "none")}
    \cup UNION {
        IF NoDocs(docs)
        THEN {Record(req, "query", TRUE, kk, docs, FALSE, "none", "answer",
                     "not_available", <<>>, "none")}
        ELSE LET sources == BuildSources(docs, 1, <<>>, UnknownSource)
             IN  IF model = "None"
                 THEN {Record(req, "query", TRUE, kk, docs, FALSE, "none", "answer",
                              "simulation", sources, "none")}
                 ELSE {Record(req, "query", TRUE, kk, docs, TRUE, "llm", "raised",
                              "none", <<>>, "none"),
                       Record(req, "query", TRUE, kk, docs, TRUE, "none", "answer",
                              "generated", sources, "none")}
        : docs \in Retrievals(vs, kk)}

\* rag_query(question) behind api_ask, which answers success: True with its result:
\* every way the call can end.  The try block turns what a capability raises into
\* the "Error during search" answer.
rag_query(req, vs, model, has_len) ==
    IF Falsy(vs, has_len)
    THEN {Record(req, "query", FALSE, 0, <<>>, FALSE, "none", "answer",
                 "not_initialized", <<>>, "True")}
    ELSE {Record(req, "query", TRUE, APP_DEFAULT_K, <<>>, FALSE, "retriever",
                 "error_message", "error", <<>>, "True")}
         \cup UNION {
             IF NoDocs(docs)
             THEN {Record(req, "query", TRUE, APP_DEFAULT_K, docs, FALSE, "none", "answer",
                          "not_found", <<>>, "True")}
             ELSE LET sources == BuildSources(docs, 1, <<>>, MedicalDocument)
                  IN  IF model = "None"
                      THEN {Record(req, "query", TRUE, APP_DEFAULT_K, docs, FALSE, "none",
                                   "answer", "simulation", sources, "True")}
                      ELSE {Record(req, "query", TRUE, APP_DEFAULT_K, docs, TRUE, "llm",
                                   "error_message", "error", <<>>, "True"),
                            Record(req, "query", TRUE, APP_DEFAULT_K, docs, TRUE, "none",
                                   "answer", "generated", sources, "True")}
             : docs \in Retrievals(vs, APP_DEFAULT_K)}

\* the strings typed into the session, or sent as the question
InputBodies ==
    { <<>>,
      <<"h", "i">>,
      <<"/", "q", "u", "i", "t">>,
      <<"/", "Q", "U", "I", "T">>,
      <<"/", "q", "u", "i", "t", " ", "n", "o", "w">>,
      <<"/", "k">>,
      <<"/", "k", " ", "5">>,
      <<"/", "K", " ", "5">>,
      <<"/", "k", " ", "0">>,
      <<"/", "k", " ", "-", "3">>,
      <<"/", "k", " ", "1", "0", "0">>,
      <<"/", "k", " ", "a", "b", "c">>,
      <<"/", "k", " ", " ", "5">>,
      <<"/", "k", "x", " ", "5">>,
      <<"/", "k", " ", "3", " ", "4">>,
      <<"/", "k", " ", "9">> }
\* some of them again with a space before and after
PaddedBodies ==
    {<<>>, <<"h", "i">>, <<"/", "q", "u", "i", "t">>, <<"/", "k", " ", "5">>}
Inputs == InputBodies \cup {<<" ">> \o body \o <<" ">> : body \in PaddedBodies}

\* the JSON bodies posted to /api/ask: with a question, or without the key
Questions ==
    {<<>>, <<" ">>, <<" ", "\t">>, <<"h", "i">>, <<" ", "h", "i", " ">>, <<"/", "k", " ", "5">>}
Requests == {[question |-> s] : s \in Questions} \cup {[lang |-> <<"e", "n">>]}

Quit == <<"/", "q", "u", "i", "t">>
SlashK == <<"/", "k">>

\* rag_chatbot.py main: without a vector store the session never starts
ChatMain ==
    /\ mode = "chat" /\ session = "start"
    /\ session' = IF Falsy(vectorstore, len_defined) THEN "exited" ELSE "running"
    /\ UNCHANGED <<mode, vectorstore, llm, len_defined, chat_k, last>>
    /\ UNCHANGED <<chunkVars, embVars>>

\* chat_interface: an empty line, "continue"
ChatBlank ==
    /\ mode = "chat" /\ session = "running"
    /\ \E inp \in Inputs :
          /\ StrStrip(inp) = <<>>
          /\ last' = Record([question |-> inp], "blank", FALSE, 0, <<>>, FALSE, "none",
                            "skipped", "none", <<>>, "none")
    /\ UNCHANGED <<mode, vectorstore, llm, len_defined, chat_k, session>>
    /\ UNCHANGED <<chunkVars, embVars>>

\* chat_interface: "/quit", "break"
ChatQuit ==
    /\ mode = "chat" /\ session = "running"
    /\ \E inp \in Inputs :
          /\ StrStrip(inp) # <<>>
          /\ Lower(StrStrip(inp)) = Quit
          /\ last' = Record([question |-> inp], "quit", FALSE, 0, <<>>, FALSE, "none",
                            "command", "none", <<>>, "none")
    /\ session' = "ended"
    /\ UNCHANGED <<mode, vectorstore, llm, len_defined, chat_k>>
    /\ UNCHANGED <<chunkVars, embVars>>

\* chat_interface: "/k N", the try block runs through
ChatSetK ==
    /\ mode = "chat" /\ session = "running"
    /\ \E inp \in Inputs :
          LET user_input == StrStrip(inp)
              words == StrSplit(user_input)
          IN  /\ user_input # <<>>
              /\ Lower(user_input) # Quit
              /\ StartsWith(Lower(user_input), SlashK)
              /\ Len(words) >= 2 /\ IsIntLiteral(words[2])
              /\ chat_k' = ClampK(IntValue(words[2]))
              /\ last' = Record([question |-> inp], "setk", FALSE, 0, <<>>, FALSE, "none",
                                "command", "none", <<>>, "none")
    /\ UNCHANGED <<mode, vectorstore, llm, len_defined, session>>
    /\ UNCHANGED <<chunkVars, embVars>>

\* chat_interface: "/k" without a number: the except branch prints the usage
ChatUsage ==
    /\ mode = "chat" /\ session = "running"
    /\ \E inp \in Inputs :
          LET user_input == StrStrip(inp)
              words == StrSplit(user_input)
          IN  /\ user_input # <<>>
              /\ Lower(user_input) # Quit
              /\ StartsWith(Lower(user_input), SlashK)
              /\ ~(Len(words) >= 2 /\ IsIntLiteral(words[2]))
              /\ last' = Record([question |-> inp], "usage", FALSE, 0, <<>>, FALSE, "none",
                                "command", "none", <<>>, "none")
    /\ UNCHANGED <<mode, vectorstore, llm, len_defined, chat_k, session>>
    /\ UNCHANGED <<chunkVars, embVars>>

\* chat_interface: anything else is a question for rag_pipeline; what it raises
\* ends the session
ChatQuestion ==
    /\ mode = "chat" /\ session = "running"
    /\ \E inp \in Inputs :
          LET user_input == StrStrip(inp)
          IN  /\ user_input # <<>>
              /\ Lower(user_input) # Quit
              /\ ~StartsWith(Lower(user_input), SlashK)
              /\ last' \in rag_pipeline([question |-> inp], vectorstore, llm, chat_k)
    /\ session' = IF last'.outcome = "raised" THEN "crashed" ELSE session
    /\ UNCHANGED <<mode, vectorstore, llm, len_defined, chat_k>>
    /\ UNCHANGED <<chunkVars, embVars>>

\* api_ask: the empty question is answered success: False
ApiAskEmpty ==
    /\ mode = "web" /\ session = "serving"
    /\ \E data \in Requests :
          /\ StrStrip(Get(data, "question", <<>>)) = <<>>
          /\ last' = Record(data, "blank", FALSE, 0, <<>>, FALSE, "none", "rejected",
                            "none", <<>>, "False")
    /\ UNCHANGED <<mode, vectorstore, llm, len_defined, chat_k, session>>
    /\ UNCHANGED <<chunkVars, embVars>>

\* api_ask: any other question goes to rag_query
ApiAsk ==
    /\ mode = "web" /\ session = "serving"
    /\ \E data \in Requests :
          /\ StrStrip(Get(data, "question", <<>>)) # <<>>
          /\ last' \in rag_query(data, vectorstore, llm, len_defined)
    /\ UNCHANGED <<mode, vectorstore, llm, len_defined, chat_k, session>>
    /\ UNCHANGED <<chunkVars, embVars>>

(***************************************************************************)
(* The stores a query program may have loaded: none, or up to MaxIndexed    *)
(* documents, each of source "a" or "b" or with no "source" in its metadata *)
(***************************************************************************)
MaxIndexed == 2

IndexedMetadata == {[source |-> <<"a">>], [source |-> <<"b">>], [section |-> <<"s">>]}
Stores ==
    {NoStore} \cup
    UNION {{StoreOf([i \in 1..n |-> [slot |-> i, metadata |-> f[i]]]) :
                f \in [1..n -> IndexedMetadata]} : n \in 0..MaxIndexed}

QueryStart(m, vs, model, has_len) ==
    /\ mode = m
    /\ vectorstore = vs
    /\ llm = model
    /\ len_defined = has_len
    /\ chat_k = DEFAULT_K
    /\ session = IF m = "web" THEN "serving" ELSE "start"
    /\ last = NoRequest

\* neither query program is running
QueryIdle ==
    /\ mode = "idle"
    /\ vectorstore = NoStore
    /\ llm = "None"
    /\ len_defined = FALSE
    /\ chat_k = DEFAULT_K
    /\ session = "idle"
    /\ last = NoRequest

(***************************************************************************)
(* Specifications: one per program                                          *)
(***************************************************************************)
InitChunks ==
    /\ \E l \in DocLists : ChunksStart(AsDocuments(l))
    /\ EmbeddingsIdle
    /\ QueryIdle

NextChunks == NextDocument \/ NextSection \/ AppendChunk \/ ReturnChunks

SpecChunks == InitChunks /\ [][NextChunks]_vars

InitEmbeddings ==
    /\ \E items \in Collections, dir \in {Absent, OldIndex} : EmbeddingsStart(items, dir)
    /\ ChunksIdle
    /\ QueryIdle

NextEmbeddings ==
    \/ LoadItem \/ LoadReturn \/ CreateRefuse \/ CreateRemove
    \/ EmbeddingsReady \/ EmbeddingsFail \/ WriteIndex \/ WriteFail

SpecEmbeddings == InitEmbeddings /\ [][NextEmbeddings]_vars

InitQuery ==
    /\ \E m \in {"web", "chat"}, vs \in Stores, model \in {"None", "groq"}, has_len \in BOOLEAN :
          QueryStart(m, vs, model, has_len)
    /\ ChunksIdle
    /\ EmbeddingsIdle

NextQuery ==
    \/ ChatMain \/ ChatBlank \/ ChatQuit \/ ChatSetK \/ ChatUsage \/ ChatQuestion
    \/ ApiAskEmpty \/ ApiAsk

SpecQuery == InitQuery /\ [][NextQuery]_vars

(***************************************************************************)
(* Properties of chunks.py                                                  *)
(***************************************************************************)
\* C1: at every point of a run of chunk_documents, the chunk_id values of the
\* chunks produced so far are strictly increasing in production order (hence
\* pairwise distinct), across documents, sections and sub-chunks.
C1_ChunkIdsIncrease ==
    \A i, j \in 1..Len(chunks) :
        i < j => chunks[i].metadata.chunk_id < chunks[j].metadata.chunk_id

\* a finished run over two documents that produced chunks of both, one of them
\* out of a split section
C1_Witness ==
    /\ cpc = "done"
    /\ Len(chunks) >= 4
    /\ \E i, j \in 1..Len(chunks) :
          chunks[i].metadata.document_id # chunks[j].metadata.document_id
    /\ \E i, j \in 1..Len(chunks) :
          i < j /\ from_split[i] /\ from_split[j]
          /\ chunks[i].metadata.section = chunks[j].metadata.section
          /\ chunks[i].metadata.document_id = chunks[j].metadata.document_id

\* C2: every chunk that came out of semantic_split (its section had more than
\* MAX_SECTION_TOKENS words) has at most MAX_SECTION_TOKENS words.
C2_SplitChunksBounded ==
    \A i \in 1..Len(chunks) :
        from_split[i] => WordCount(chunks[i].page_content) <= MAX_SECTION_TOKENS

\* C12: a document that chunk_documents has passed to split_by_sections and whose
\* text has no "##" in it gave exactly one section, whose content is the text of
\* the document.
C12_NoMarkerOneSection ==
    \A k \in 1..(doc_i - 1) :
        ~Contains(documents[k].page_content, PRIMARY_SEPARATOR) =>
            LET secs == split_by_sections(documents[k])
            IN  Len(secs) = 1 /\ secs[1].page_content = documents[k].page_content

(***************************************************************************)
(* Properties of embeddings.py                                              *)
(***************************************************************************)
\* C3: a rebuild that failed has left the index directory that existed before it
\* as it was: it never ends with the old index gone and no complete new one.
C3_RebuildAtomic ==
    (epc = "raised" /\ persist0.exists) => (persist = persist0 \/ persist.complete)

\* C4: create_vector_store called with no chunks returns None and leaves the
\* index directory exactly as it was: nothing removed, nothing created.
C4_EmptyBuildNoEffect ==
    (epc \in {"embed", "write", "done", "raised"} /\ loaded = <<>>)
        => (epc = "done" /\ result = "None" /\ persist = persist0)

\* every item of a non-empty collection was filtered out, and the index of an
\* earlier build is still there after create_vector_store returned None
C4_Witness ==
    /\ epc = "done" /\ result = "None"
    /\ raw_chunks # <<>> /\ loaded = <<>>
    /\ persist0 = OldIndex /\ persist = OldIndex

\* the title of a persisted chunk contains marker, letter case ignored
TitleContains(item, marker) ==
    /\ "section" \in DOMAIN item.metadata
    /\ \E i \in 1..Len(item.metadata.section) :
          /\ i + Len(marker) - 1 <= Len(item.metadata.section)
          /\ \A j \in 1..Len(marker) :
                LowerChar(item.metadata.section[i + j - 1]) = LowerChar(marker[j])

HasExcludedMarker(item) ==
    \E k \in 1..Len(EXCLUDED_SECTIONS) : TitleContains(item, EXCLUDED_SECTIONS[k])

\* C5: the documents load_chunks_from_json has kept are exactly the items read so
\* far whose section title contains no excluded marker (letter case ignored), in
\* their order; and the index built from them holds exactly those chunks.
C5_ExcludedSectionsFiltered ==
    LET read == SubSeq(raw_chunks, 1, item_i - 1)
        retained == SelectSeq(read, LAMBDA item : ~HasExcludedMarker(item))
    IN  /\ Len(loaded) = Len(retained)
        /\ \A k \in 1..Len(loaded) :
              /\ loaded[k].metadata.chunk_id = retained[k].chunk_id
              /\ loaded[k].page_content = retained[k].content
        /\ result = "store" =>
              persist.entries = [k \in 1..Len(retained) |-> retained[k].chunk_id]

\* an index was built from a collection of three items, of which one, whose
\* title holds a marker in mixed case, was dropped, and the two around it kept
C5_Witness ==
    /\ epc = "done" /\ result = "store"
    /\ Len(raw_chunks) = 3 /\ persist.entries = <<0, 2>>
    /\ HasExcludedMarker(raw_chunks[2])
    /\ raw_chunks[2].metadata.section # Upper(raw_chunks[2].metadata.section)

(***************************************************************************)
(* Properties of the query paths                                            *)
(***************************************************************************)
\* C6: a request during which the retriever or the LLM failed ends with an error
\* message for the user, never with the exception raised out of the query.
C6_FailuresBecomeMessages ==
    last.fault # "none" => last.outcome = "error_message"

\* every character of s is whitespace
AllSpace(s) == \A i \in 1..Len(s) : s[i] \in {" ", "\t", "\n"}

\* the request carries no question, or one of whitespace only
BlankRequest(r) == "question" \in DOMAIN r.req => AllSpace(r.req.question)

\* C7: a blank question never reaches the retriever (nor the LLM), and api_ask
\* answers it success: False.
C7_BlankRejected ==
    (last.kind # "none" /\ BlankRequest(last)) =>
        /\ ~last.retrieved /\ ~last.generated
        /\ mode = "web" => (last.outcome = "rejected" /\ last.success = "False")

\* api_ask rejected a question that is not the empty string but all whitespace
C7_Witness ==
    /\ mode = "web" /\ last.kind = "blank" /\ last.success = "False"
    /\ "question" \in DOMAIN last.req
    /\ last.req.question # <<>> /\ AllSpace(last.req.question)
    /\ vectorstore.loaded /\ vectorstore.docs # <<>>

\* C8: a query with no store loaded, or whose search returned no document, ends
\* with the "not initialized" / "not found" / "not available" answer and an empty
\* source list, without raising and without a call of the LLM.
C8_NoIndexNoResults ==
    (/\ last.kind = "query"
     /\ \/ ~vectorstore.loaded
        \/ (last.retrieved /\ last.fault = "none" /\ last.docs = <<>>))
    => /\ last.outcome = "answer"
       /\ last.answer \in {"not_initialized", "not_found", "not_available"}
       /\ last.sources = <<>>
       /\ ~last.generated

\* the search of an empty collection returned nothing although an LLM is configured
C8_Witness ==
    /\ last.kind = "query" /\ last.retrieved /\ last.fault = "none" /\ last.docs = <<>>
    /\ llm = "groq"
    /\ last.outcome = "answer"

\* the source name a retrieved document is listed under
SourceNameOf(doc) ==
    IF "source" \in DOMAIN doc.metadata THEN doc.metadata.source
    ELSE IF mode = "chat" THEN UnknownSource ELSE MedicalDocument

FirstIndex(seq, x) == CHOOSE i \in 1..Len(seq) : seq[i] = x /\ \A j \in 1..(i - 1) : seq[j] # x

C10_KWithinBounds ==
    /\ [](/\ chat_k \in 1..MAX_K
          /\ (mode = "chat" /\ last.kind = "query") => last.k_used \in 1..MAX_K
          /\ last.kind \in {"setk", "usage"} => (~last.retrieved /\ ~last.generated))
    /\ [][last'.kind \in {"setk", "usage"} =>
              UNCHANGED <<mode, vectorstore, llm, len_defined, session>>]_vars

\* "/k 100" was clamped to MAX_K and a later question was retrieved with it
C10_Witness ==
    /\ mode = "chat" /\ last.kind = "query" /\ last.retrieved
    /\ last.k_used = MAX_K /\ chat_k = MAX_K

(***************************************************************************)
(* Properties of the chunk collection between chunks.py and embeddings.py   *)
(***************************************************************************)
\* the chunk list whose saved form is the given collection
SavedFrom(items) ==
    [k \in 1..Len(items) |-> [page_content |-> items[k].content, metadata |-> items[k].metadata]]

\* C11: load_chunks_from_json applied to what save_chunks wrote returns the list
\* that was saved: the same chunks in the same order, each with its chunk_id,
\* its content and its metadata.
C11_SaveLoadRoundTrip ==
    LET cs == SavedFrom(raw_chunks)
    IN  (epc # "load" /\ epc # "idle" /\ save_chunks(cs) = raw_chunks) => loaded = cs

====
